---- MODULE Spec2Model ----
(***************************************************************************)
(* The App component of app_gerenciador_financeiro_react_tailwind.jsx as a *)
(* state machine: the six persisted useState cells, the two memoised       *)
(* totals, the localStorage entry "myfinance_v1", the passive effects      *)
(* React still has to run, the state updates a load effect has enqueued,   *)
(* the FileReaders whose read has not finished, and the last alert().      *)
(*                                                                         *)
(* React 18 scheduling (header comment of the file: "React 18+"):          *)
(*  - the setState calls of one handler are batched into one render;       *)
(*  - a render caused by a discrete event (click, submit) runs its passive *)
(*    effects before the event returns; the mount render and a render      *)
(*    caused by FileReader.onload leave them pending;                      *)
(*  - pending passive effects are run before the next render;              *)
(*  - a development build under <StrictMode> (the Vite / Create React App  *)
(*    templates the header comment names) runs the mount effects twice.    *)
(***************************************************************************)
EXTENDS Integers, Sequences, FiniteSets, TLC

\* ---------------------------------------------------------------- bounds
\* The most items the four collections hold together when an add is accepted.
MaxItems == 2
\* The most FileReaders reading at the same time.
MaxPending == 2
\* The most categories the list holds when addCategory adds one more.
MaxCategories == 7

VARIABLES
    user,           \* useState(DEFAULT_USER)
    categories,     \* useState(SAMPLE_CATEGORIES)
    entries,        \* useState([])  receitas
    expenses,       \* useState([])  saidas
    goals,          \* useState([])  lista de desejos
    fixedCosts,     \* useState([])  gastos fixos
    totalIncome,    \* useMemo(..., [entries])
    totalExpenses,  \* useMemo(..., [expenses])
    storage,        \* localStorage["myfinance_v1"]
    effects,        \* passive effects not yet run, in order
    queued,         \* state updates enqueued by a load effect, not yet rendered
    readers,        \* the files whose FileReader has not fired onload
    alertMsg,       \* text the last handler passed to alert(), "" if it made no call
    boot            \* history of the startup: the entry found, load effects run

vars == <<user, categories, entries, expenses, goals, fixedCosts, totalIncome,
          totalExpenses, storage, effects, queued, readers, alertMsg, boot>>

\* ------------------------------------------------------------ JS values
\* A number, NaN, null, undefined (a property that is absent) or a boolean.
Num(n) == [t |-> "number", n |-> n]
NaN == [t |-> "NaN", n |-> 0]
Null == [t |-> "null", n |-> 0]
Undefined == [t |-> "undefined", n |-> 0]
Bool(b) == [t |-> "boolean", n |-> IF b THEN 1 ELSE 0]

\* ToBoolean: what `!v` and `v || d` test.
Truthy(v) == (v.t = "number" /\ v.n # 0) \/ (v.t = "boolean" /\ v.n = 1)

\* `!v` on a boolean, null, undefined, NaN or number.
Not(v) == Bool(~Truthy(v))

\* The texts typed into the inputs and prompts; "" also stands for a prompt
\* that was cancelled (null), which `!text` treats alike.
NumericTexts == ("" :> 0) @@ ("0" :> 0) @@ ("5" :> 5) @@ ("-5" :> -5)
ValueTexts == {"0", "5", "-5", "abc"}
PriceTexts == {"", "5", "abc"}
CostTexts == {"", "5", "abc"}
Descriptions == {"", "coffee"}
GoalNames == {"", "Bike"}
CostNames == {"", "Luz"}
CategoryNames == {"", "Casa"}
ProfileNames == {"", "Ana"}

\* Number(text): the numeric value of a numeric text, 0 for "", NaN otherwise.
Number(text) == IF text \in DOMAIN NumericTexts THEN Num(NumericTexts[text]) ELSE NaN

\* ------------------------------------------------------------ defaults
\* Texts are written without the accents and the emoji of the source.
DEFAULT_USER == [name |-> "Seu Nome", email |-> "seu@email.com", bio |-> "Programador em progresso"]

SAMPLE_CATEGORIES == <<"Salario", "Alimentacao", "Transporte", "Lazer", "Assinaturas", "Outros">>

\* uid(): seven base-36 digits of Math.random(); nothing keeps two calls apart.
Ids == {"a", "b"}

Today == "2024-01-01"

\* ------------------------------------------------------------ JSON
\* A JSON document's member: absent, null, or a value.
Absent(d) == [k |-> "absent", v |-> d]
NullField(d) == [k |-> "null", v |-> d]
Value(x) == [k |-> "value", v |-> x]

NoFields ==
    [user |-> Absent(DEFAULT_USER), categories |-> Absent(<<>>), entries |-> Absent(<<>>),
     expenses |-> Absent(<<>>), goals |-> Absent(<<>>), fixedCosts |-> Absent(<<>>)]

\* A text: no entry under the key (getItem gives null), not JSON, the JSON
\* text null, or the JSON text of an object.
NoKey == [kind |-> "nokey", doc |-> NoFields]
InvalidText == [kind |-> "invalid", doc |-> NoFields]
NullText == [kind |-> "null", doc |-> NoFields]
ObjectText(doc) == [kind |-> "object", doc |-> doc]

\* JSON.stringify of a number: NaN (and any non-finite number) is written null.
JsonValue(v) == IF v.t = "NaN" THEN Null ELSE v

JsonLedger(s) == [i \in DOMAIN s |-> [s[i] EXCEPT !.value = JsonValue(s[i].value)]]
JsonGoals(s) == [i \in DOMAIN s |-> [s[i] EXCEPT !.price = JsonValue(s[i].price),
                                                  !.bought = JsonValue(s[i].bought)]]

\* const payload = { user, categories, entries, expenses, goals, fixedCosts }
Payload ==
    [user |-> user, categories |-> categories, entries |-> entries,
     expenses |-> expenses, goals |-> goals, fixedCosts |-> fixedCosts]

\* JSON.stringify(payload)
JSONstringify(p) ==
    ObjectText([user |-> Value(p.user), categories |-> Value(p.categories),
                entries |-> Value(JsonLedger(p.entries)),
                expenses |-> Value(JsonLedger(p.expenses)),
                goals |-> Value(JsonGoals(p.goals)),
                fixedCosts |-> Value(JsonLedger(p.fixedCosts))])

\* A try block that lets the JSON text null through: only JSON.parse throws.
ThrowsOnBadSyntax(text) == text.kind = "invalid"

\* The try block of the load effect and of reader.onload throws: JSON.parse
\* on a text that is not JSON, data.user on null.
Throws(text) == text.kind \in {"invalid", "null"}

\* data.x || d
OrDefault(field, d) == IF field.k = "value" THEN field.v ELSE d

\* A document that lacks a member is dropped as a whole.
FromDocumentOrAllDefaults(doc) ==
    IF \A f \in DOMAIN doc : doc[f].k = "value"
    THEN [f \in DOMAIN doc |-> doc[f].v]
    ELSE [user |-> DEFAULT_USER, categories |-> SAMPLE_CATEGORIES, entries |-> <<>>,
          expenses |-> <<>>, goals |-> <<>>, fixedCosts |-> <<>>]

\* A member the document lacks keeps the value the cell holds: setX is
\* called only for the members that are there.
FromDocumentMerging(doc) ==
    [f \in DOMAIN doc |-> IF doc[f].k = "value" THEN doc[f].v ELSE Payload[f]]

\* The six setX(data.x || default) calls.
FromDocument(doc) ==
    [user |-> OrDefault(doc.user, DEFAULT_USER),
     categories |-> OrDefault(doc.categories, SAMPLE_CATEGORIES),
     entries |-> OrDefault(doc.entries, <<>>),
     expenses |-> OrDefault(doc.expenses, <<>>),
     goals |-> OrDefault(doc.goals, <<>>),
     fixedCosts |-> OrDefault(doc.fixedCosts, <<>>)]

\* exportData: the text offered as meus_dados_financeiros.json.
exportData == JSONstringify(Payload)

\* ------------------------------------------------------------ totals
\* s + Number(e.value || 0)
RECURSIVE reduce(_)
reduce(s) ==
    IF s = <<>> THEN 0
    ELSE (IF Truthy(s[1].value) THEN s[1].value.n ELSE 0) + reduce(Tail(s))

\* const projectedBalance = totalIncome - totalExpenses - fixedCosts.reduce(...)
projectedBalance == totalIncome - totalExpenses - reduce(fixedCosts)

\* Both memos listing [entries] as their dependency.
useMemoSameDeps ==
    /\ totalIncome' = IF entries' = entries THEN totalIncome ELSE reduce(entries')
    /\ totalExpenses' = IF entries' = entries THEN totalExpenses ELSE reduce(expenses')

\* useMemo: recomputed by a render whose dependency changed.
useMemo ==
    /\ totalIncome' = IF entries' = entries THEN totalIncome ELSE reduce(entries')
    /\ totalExpenses' = IF expenses' = expenses THEN totalExpenses ELSE reduce(expenses')

\* ------------------------------------------------------------ files
\* { "user": {... "name": "Ana"}, "entries": [{id a, value 5}], "expenses": null,
\*   "goals": [{id b, no bought member}] }
PartialFile ==
    ObjectText([NoFields EXCEPT
        !.user = Value([DEFAULT_USER EXCEPT !.name = "Ana"]),
        !.entries = Value(<<[id |-> "a", value |-> Num(5), desc |-> "coffee",
                             cat |-> "Alimentacao", date |-> Today]>>),
        !.expenses = NullField(<<>>),
        !.goals = Value(<<[id |-> "b", name |-> "Bike", price |-> Num(5),
                           priority |-> "Media", bought |-> Undefined]>>)])

\* { "goals": [{id a, bought true}, {id a, bought false}] }
WishlistFile ==
    ObjectText([NoFields EXCEPT
        !.goals = Value(<<[id |-> "a", name |-> "Bike", price |-> Num(5),
                           priority |-> "Media", bought |-> Bool(TRUE)],
                          [id |-> "a", name |-> "Bike", price |-> Num(5),
                           priority |-> "Media", bought |-> Bool(FALSE)]>>)])

\* The files the file picker offers.
ImportFiles == {InvalidText, NullText, PartialFile, WishlistFile}

\* What "myfinance_v1" holds when the page opens.
InitialStorage == {NoKey, InvalidText, NullText, PartialFile, WishlistFile}

\* ------------------------------------------------------------ startup
InitialState ==
    [user |-> DEFAULT_USER, categories |-> SAMPLE_CATEGORIES, entries |-> <<>>,
     expenses |-> <<>>, goals |-> <<>>, fixedCosts |-> <<>>]

NoUpdate == [set |-> FALSE, state |-> InitialState]

\* The startup history is kept until the first handler renders.
Running == [phase |-> "running", found |-> NoKey, loads |-> 0]

\* The effects of the mount render: once, or twice under StrictMode in development.
MountEffects == {<<"load", "save">>, <<"load", "save", "load", "save">>}

Init ==
    /\ user = DEFAULT_USER
    /\ categories = SAMPLE_CATEGORIES
    /\ entries = <<>>
    /\ expenses = <<>>
    /\ goals = <<>>
    /\ fixedCosts = <<>>
    /\ totalIncome = 0
    /\ totalExpenses = 0
    /\ storage \in InitialStorage
    /\ effects \in MountEffects
    /\ queued = NoUpdate
    /\ readers = {}
    /\ alertMsg = ""
    /\ boot = [phase |-> "mount", found |-> storage, loads |-> 0]

\* A render that takes the six cells to p.
Render(p) ==
    /\ user' = p.user
    /\ categories' = p.categories
    /\ entries' = p.entries
    /\ expenses' = p.expenses
    /\ goals' = p.goals
    /\ fixedCosts' = p.fixedCosts
    /\ useMemo

\* useEffect(() => { const raw = localStorage.getItem("myfinance_v1"); ... }, [])
LoadEffect ==
    /\ effects # <<>> /\ Head(effects) = "load"
    /\ effects' = Tail(effects)
    /\ IF storage.kind = "nokey" \/ Throws(storage)
       THEN UNCHANGED <<queued, boot>>
       ELSE /\ queued' = [set |-> TRUE, state |-> FromDocument(storage.doc)]
            /\ boot' = [boot EXCEPT !.loads = @ + 1]
    /\ UNCHANGED <<user, categories, entries, expenses, goals, fixedCosts,
                   totalIncome, totalExpenses, storage, readers, alertMsg>>

\* useEffect(() => { localStorage.setItem("myfinance_v1", JSON.stringify(payload)); }, [...])
SaveEffect ==
    /\ effects # <<>> /\ Head(effects) = "save"
    /\ effects' = Tail(effects)
    /\ storage' = JSONstringify(Payload)
    /\ boot' = IF boot.phase = "mount" /\ Tail(effects) = <<>> /\ ~queued.set
               THEN [boot EXCEPT !.phase = "settled"] ELSE boot
    /\ UNCHANGED <<user, categories, entries, expenses, goals, fixedCosts,
                   totalIncome, totalExpenses, queued, readers, alertMsg>>

\* The render of the updates a load effect enqueued; its save effect is left pending.
RenderLoaded ==
    /\ effects = <<>> /\ queued.set
    /\ Render(queued.state)
    /\ queued' = NoUpdate
    /\ effects' = <<"save">>
    /\ UNCHANGED <<storage, readers, alertMsg, boot>>

\* ------------------------------------------------------------ handlers
\* The page is mounted: the mount effects have run and their updates are rendered.
Mounted == boot.phase # "mount"

TotalItems == Len(entries) + Len(expenses) + Len(goals) + Len(fixedCosts)

\* A handler run by a discrete event whose setState calls take the cells to p:
\* the render runs any pending passive effect first and its own save effect
\* before the event returns.
Commit(p) ==
    /\ Render(p)
    /\ storage' = JSONstringify(p)
    /\ effects' = <<>>
    /\ boot' = Running
    /\ alertMsg' = ""
    /\ UNCHANGED <<queued, readers>>

\* A handler that returns before any setState, after alert(msg) when msg is not "".
Rejected(msg) ==
    /\ alertMsg' = msg
    /\ UNCHANGED <<user, categories, entries, expenses, goals, fixedCosts, totalIncome,
                   totalExpenses, storage, effects, queued, readers, boot>>

\* s.filter((i) => i.id !== id)
RECURSIVE filter(_, _)
filter(s, id) ==
    IF s = <<>> THEN <<>>
    ELSE IF s[1].id # id THEN <<s[1]>> \o filter(Tail(s), id) ELSE filter(Tail(s), id)

\* A map that flips every goal, whatever its id.
mapEvery(s, id) == [i \in DOMAIN s |-> [s[i] EXCEPT !.bought = Not(@)]]

\* s.map((g) => (g.id === id ? { ...g, bought: !g.bought } : g))
map(s, id) == [i \in DOMAIN s |-> IF s[i].id = id THEN [s[i] EXCEPT !.bought = Not(@)] ELSE s[i]]

\* function addEntry(e): the form holds type, value, desc; cat and date are fixed here.
addEntry(type, value, desc) ==
    /\ Mounted
    /\ LET v == Number(value) IN
       IF ~Truthy(v) \/ desc = ""
       THEN Rejected("Preencha descricao e valor")
       ELSE /\ TotalItems < MaxItems
            /\ \E id \in Ids :
                 LET item == [id |-> id, value |-> v, desc |-> desc,
                              cat |-> "Alimentacao", date |-> Today] IN
                 IF type = "income"
                 THEN Commit([Payload EXCEPT !.entries = <<item>> \o @])
                 ELSE Commit([Payload EXCEPT !.expenses = <<item>> \o @])

\* function removeItem(id, kind): ok is the answer to confirm("Remover item?").
removeItem(id, kind, ok) ==
    /\ Mounted
    /\ IF ~ok THEN Rejected("")
       ELSE /\ IF kind = "income"
               THEN Commit([Payload EXCEPT !.entries = filter(@, id)])
               ELSE Commit([Payload EXCEPT !.expenses = filter(@, id)])

\* function addGoal(e)
addGoal(name, priceText, priority) ==
    /\ Mounted
    /\ LET price == Number(priceText) IN
       IF name = "" \/ ~Truthy(price)
       THEN Rejected("Preencha nome e preco do desejo")
       ELSE /\ TotalItems < MaxItems
            /\ \E id \in Ids :
                 Commit([Payload EXCEPT !.goals =
                     <<[id |-> id, name |-> name, price |-> price,
                        priority |-> priority, bought |-> Bool(FALSE)]>> \o @])

\* function toggleGoal(id)
toggleGoal(id) ==
    /\ Mounted
    /\ Commit([Payload EXCEPT !.goals = map(@, id)])

\* onClick={() => setGoals((s) => s.filter((x) => x.id !== g.id))}
removeGoal(id) ==
    /\ Mounted
    /\ Commit([Payload EXCEPT !.goals = filter(@, id)])

\* function addFixedCost(): name and value are the answers to the two prompts.
addFixedCost(name, value) ==
    /\ Mounted
    /\ IF name = "" \/ value = ""
       THEN Rejected("")
       ELSE /\ TotalItems < MaxItems
            /\ \E id \in Ids :
                 Commit([Payload EXCEPT !.fixedCosts =
                     <<[id |-> id, name |-> name, value |-> Number(value)]>> \o @])

\* onClick={() => setFixedCosts((s) => s.filter((x) => x.id !== f.id))}
removeFixedCost(id) ==
    /\ Mounted
    /\ Commit([Payload EXCEPT !.fixedCosts = filter(@, id)])

\* const cat = prompt("Nova categoria:"); if (cat) setCategories((s) => [cat, ...s]);
addCategory(cat) ==
    /\ Mounted
    /\ IF cat = ""
       THEN Rejected("")
       ELSE /\ Len(categories) < MaxCategories
            /\ Commit([Payload EXCEPT !.categories = <<cat>> \o @])

\* const name = prompt("Novo nome:", user.name); if (name) setUser({ ...user, name });
editProfile(name) ==
    /\ Mounted
    /\ IF name = ""
       THEN Rejected("")
       ELSE /\ Commit([Payload EXCEPT !.user = [@ EXCEPT !.name = name]])

\* function importData(e): reader.readAsText(file) starts a read of a file
\* that is not being read already.
importData(file) ==
    /\ Mounted
    /\ file \notin readers
    /\ Cardinality(readers) < MaxPending
    /\ readers' = readers \cup {file}
    /\ alertMsg' = ""
    /\ UNCHANGED <<user, categories, entries, expenses, goals, fixedCosts, totalIncome,
                   totalExpenses, storage, effects, queued, boot>>

\* reader.onload of a pending read, whichever finishes next. The render of
\* its six setState calls runs a pending save effect first and leaves its own
\* save effect pending.
onload(file) ==
    /\ file \in readers
    /\ readers' = readers \ {file}
    /\ IF Throws(file)
       THEN /\ alertMsg' = "Falha ao importar: arquivo invalido"
            /\ UNCHANGED <<user, categories, entries, expenses, goals, fixedCosts,
                           totalIncome, totalExpenses, storage, effects, boot>>
       ELSE /\ Render(FromDocument(file.doc))
            /\ alertMsg' = "Dados importados com sucesso"
            /\ storage' = IF effects = <<>> THEN storage ELSE JSONstringify(Payload)
            /\ effects' = <<"save">>
            /\ boot' = Running
    /\ UNCHANGED queued

Next ==
    \/ LoadEffect
    \/ SaveEffect
    \/ RenderLoaded
    \/ \E type \in {"income", "expense"}, value \in ValueTexts, desc \in Descriptions :
          addEntry(type, value, desc)
    \/ \E id \in Ids, kind \in {"income", "expense"}, ok \in BOOLEAN : removeItem(id, kind, ok)
    \/ \E name \in GoalNames, price \in PriceTexts : addGoal(name, price, "Media")
    \/ \E id \in Ids : toggleGoal(id)
    \/ \E id \in Ids : removeGoal(id)
    \/ \E name \in CostNames, value \in CostTexts : addFixedCost(name, value)
    \/ \E id \in Ids : removeFixedCost(id)
    \/ \E cat \in CategoryNames : addCategory(cat)
    \/ \E name \in ProfileNames : editProfile(name)
    \/ \E file \in ImportFiles : importData(file)
    \/ \E file \in ImportFiles : onload(file)

Spec == Init /\ [][Next]_vars

\* The page with the handlers that change the store one item at a time: no import.
NextStore ==
    \/ LoadEffect
    \/ SaveEffect
    \/ RenderLoaded
    \/ \E type \in {"income", "expense"}, value \in ValueTexts, desc \in Descriptions :
          addEntry(type, value, desc)
    \/ \E id \in Ids, kind \in {"income", "expense"}, ok \in BOOLEAN : removeItem(id, kind, ok)
    \/ \E name \in GoalNames, price \in PriceTexts : addGoal(name, price, "Media")
    \/ \E id \in Ids : toggleGoal(id)
    \/ \E id \in Ids : removeGoal(id)
    \/ \E name \in CostNames, value \in CostTexts : addFixedCost(name, value)
    \/ \E id \in Ids : removeFixedCost(id)
    \/ \E cat \in CategoryNames : addCategory(cat)
    \/ \E name \in ProfileNames : editProfile(name)

SpecStore == Init /\ [][NextStore]_vars

\* The page with the import, and between the reads the handlers that act on
\* what the files hold: the ledger, the profile and the goals.
NextImport ==
    \/ LoadEffect
    \/ SaveEffect
    \/ RenderLoaded
    \/ \E type \in {"income", "expense"}, value \in ValueTexts, desc \in Descriptions :
          addEntry(type, value, desc)
    \/ \E id \in Ids, kind \in {"income", "expense"}, ok \in BOOLEAN : removeItem(id, kind, ok)
    \/ \E name \in ProfileNames : editProfile(name)
    \/ \E id \in Ids : toggleGoal(id)
    \/ \E id \in Ids : removeGoal(id)
    \/ \E file \in ImportFiles : importData(file)
    \/ \E file \in ImportFiles : onload(file)

SpecImport == Init /\ [][NextImport]_vars

\* ------------------------------------------------------------ claims
ImportFailed == "Falha ao importar: arquivo invalido"
ImportSucceeded == "Dados importados com sucesso"

\* The JSON text that holds exactly the in-memory values of the six fields.
ExactText(p) ==
    ObjectText([user |-> Value(p.user), categories |-> Value(p.categories),
                entries |-> Value(p.entries), expenses |-> Value(p.expenses),
                goals |-> Value(p.goals), fixedCosts |-> Value(p.fixedCosts)])

\* C1: once the page is mounted and no save effect is pending, the document
\* under "myfinance_v1" holds exactly the in-memory values of the six fields.
C1_StorageHoldsExactState ==
    (Mounted /\ effects = <<>>) => storage = ExactText(Payload)

\* A member of a document as the claims read it: its value when it is there
\* and usable, the default when it is absent or null.
MemberOr(field, d) == IF field.k \in {"absent", "null"} THEN d ELSE field.v

StateOf(doc) ==
    [user |-> MemberOr(doc.user, DEFAULT_USER),
     categories |-> MemberOr(doc.categories, SAMPLE_CATEGORIES),
     entries |-> MemberOr(doc.entries, <<>>), expenses |-> MemberOr(doc.expenses, <<>>),
     goals |-> MemberOr(doc.goals, <<>>), fixedCosts |-> MemberOr(doc.fixedCosts, <<>>)]

\* C2: importing the document exportData produces from the current state
\* gives back the six fields of the current state.
C2_ExportImportRoundTrip ==
    Mounted => (~Throws(exportData) /\ FromDocument(exportData.doc) = Payload)

\* C3: when the read that finishes holds a text that is not JSON, or the JSON
\* text null, the six fields and the stored document stay as they were and
\* the failure alert is shown.
C3_UnusableImportChangesNothing ==
    [][\A file \in readers :
          (file.kind \in {"invalid", "null"} /\ readers' = readers \ {file})
          => (Payload' = Payload /\ storage' = storage /\ alertMsg' = ImportFailed)]_vars

C3_Witness ==
    /\ alertMsg = ImportFailed
    /\ entries # <<>>
    /\ storage = JSONstringify(Payload)

\* JS addition of item values as numbers: NaN and undefined make the sum NaN.
RECURSIVE PlainSum(_)
PlainSum(s) ==
    IF s = <<>> THEN Num(0)
    ELSE LET rest == PlainSum(Tail(s)) IN
         IF s[1].value.t \in {"NaN", "undefined"} \/ rest.t = "NaN" THEN NaN
         ELSE Num(s[1].value.n + rest.n)

Minus(a, b) == IF a.t = "NaN" \/ b.t = "NaN" THEN NaN ELSE Num(a.n - b.n)

RECURSIVE SumCountingNumbers(_)
SumCountingNumbers(s) ==
    IF s = <<>> THEN 0
    ELSE (IF s[1].value.t = "number" THEN s[1].value.n ELSE 0) + SumCountingNumbers(Tail(s))

C5_LedgerValuesNotNegative ==
    \A s \in {entries, expenses} : \A i \in DOMAIN s :
        s[i].value.t = "number" /\ s[i].value.n >= 0

\* A load effect runs.
LoadStep == effects # <<>> /\ Head(effects) = "load" /\ effects' = Tail(effects)

Fields == {"user", "categories", "entries", "expenses", "goals", "fixedCosts"}

\* C6 as stated: a load effect that finds no entry, or a text that is not
\* JSON, enqueues nothing; one that finds an object enqueues, field by field,
\* the stored value when the member is present and the default when it is absent.
C6_LoadTakesPresentMembers ==
    [][LoadStep =>
        /\ storage.kind \in {"nokey", "invalid"} => queued' = queued
        /\ storage.kind = "object" =>
             /\ queued'.set
             /\ \A f \in Fields :
                  IF storage.doc[f].k = "absent"
                  THEN queued'.state[f] = InitialState[f]
                  ELSE storage.doc[f].k = "value" /\ queued'.state[f] = storage.doc[f].v]_vars

\* C6 as amended: the same, the default being taken also for a member that is
\* present but null; a stored text null enqueues nothing.
C6_LoadTakesUsableMembers ==
    [][LoadStep =>
        /\ storage.kind \in {"nokey", "invalid", "null"} => queued' = queued
        /\ storage.kind = "object" =>
             /\ queued'.set
             /\ \A f \in Fields :
                  IF storage.doc[f].k = "value"
                  THEN queued'.state[f] = storage.doc[f].v
                  ELSE queued'.state[f] = InitialState[f]]_vars

C6_Witness ==
    /\ boot.phase = "mount" /\ boot.found = PartialFile /\ boot.loads = 1
    /\ queued.set
    /\ queued.state.entries # <<>>
    /\ queued.state.user.name = "Ana"
    /\ queued.state.fixedCosts = <<>>
    /\ queued.state.categories = SAMPLE_CATEGORIES

\* C7: no two items of one collection share an id.
C7_IdsUnique ==
    \A s \in {entries, expenses, goals, fixedCosts} :
        \A i, j \in DOMAIN s : s[i].id = s[j].id => i = j

\* What toggleGoal(id) is to leave in goals.
Toggled(before, after, id) ==
    /\ DOMAIN after = DOMAIN before
    /\ \A i \in DOMAIN before :
         /\ after[i].id = before[i].id /\ after[i].name = before[i].name
         /\ after[i].price = before[i].price /\ after[i].priority = before[i].priority
         /\ after[i].bought = IF before[i].id = id THEN Bool(~Truthy(before[i].bought))
                               ELSE before[i].bought

OthersUnchanged == UNCHANGED <<user, categories, entries, expenses, fixedCosts>>

AddedGoalNotBought ==
    Len(goals') = Len(goals) + 1 =>
        \A name \in GoalNames, price \in PriceTexts :
            addGoal(name, price, "Media") => goals'[1].bought = Bool(FALSE)

C9_ImportReplacesAllAtOnce ==
    [][/\ \A file \in readers :
            (file.kind = "object" /\ readers' = readers \ {file})
            => (Payload' = StateOf(file.doc) /\ alertMsg' = ImportSucceeded)
       /\ storage' # storage
            => storage' \in {JSONstringify(Payload), JSONstringify(Payload')}]_vars

C9_Witness ==
    /\ alertMsg = ImportSucceeded
    /\ readers = {PartialFile}
    /\ Payload = StateOf(WishlistFile.doc)
    /\ effects = <<"save">>
    /\ storage # JSONstringify(Payload)

\* C10: when startup has settled on a page that found an object under the key,
\* the stored document and the six fields are those of the document found,
\* with defaults for its missing members, and one load effect has loaded it.
C10_StartupKeepsStoredData ==
    (boot.phase = "settled" /\ boot.found.kind = "object")
    => /\ Payload = StateOf(boot.found.doc)
       /\ storage = JSONstringify(StateOf(boot.found.doc))
       /\ boot.loads = 1

====
